---- MODULE Spec2Model ----
(***************************************************************************)
(* KPM Strategy (cppcore/src/kpm/Strategy.cpp): one StrategyTemplate       *)
(* instance, its constructor, change_hamiltonian and the queries ldos,     *)
(* greens, greens_vector and dos.                                          *)
(*                                                                         *)
(* The numeric pipeline (moment recursion, kernel damping, reconstruction) *)
(* lives outside the excerpt.  Its values are modelled as terms that       *)
(* record every input they were computed from, so two results are equal    *)
(* exactly when all the inputs that flowed into them are equal.            *)
(*                                                                         *)
(* The loop splitter of cppcore/include/support/simd.hpp (split_loop and   *)
(* split_loop_t::for_each) is a pure function of its arguments: it is      *)
(* modelled as operators and applied under its own specification,          *)
(* SplitLoopSpec.                                                          *)
(*                                                                         *)
(* System (cppcore/src/system/System.cpp): the constructor fills           *)
(* compressed_sublattices from the sites of the foundation, and            *)
(* to_hamiltonian_index translates a site index.  It runs under            *)
(* SystemSpec.  CompressedSublattices itself is not part of the excerpt:   *)
(* it is the run-length list of (alias_id, num_sites, num_orbitals) that   *)
(* System.cpp fills with add() and reads through sys_start(), sys_end(),   *)
(* ham_start(), ham_size() and num_orbitals().                             *)
(***************************************************************************)
EXTENDS Integers, Sequences, FiniteSets, TLC

\* ------------------------------------------------------------------ bounds

\* largest configured number of random realizations for dos
MaxRandom == 2
\* cap on the accumulated timers of Stats (queries are disabled beyond it)
MaxTime == 2
\* largest loop index handed to split_loop (the smallest is -MaxIndex)
MaxIndex == 5
\* largest explicit vector width (template argument step) of split_loop
MaxStep == 4
\* largest number of valid sites of a foundation
MaxSites == 4

\* ------------------------------------------------------------------ inputs

\* site indices of the operator (its dimension is 2)
Sites == { 0, 1 }

\* operators offered by the caller: the variant `Hamiltonian` holds a matrix
\* of one scalar field
Hamiltonians ==
    { [id |-> 1, field |-> "real"],
      [id |-> 2, field |-> "real"],
      [id |-> 3, field |-> "complex"] }

\* configured energy ranges <<min_energy, max_energy>>; <<0, 0>> is the
\* default (bounds computed automatically)
EnergyRanges == { <<0, 0>>, <<-4, 4>>, <<1, -1>> }

Configs ==
    { [min_energy |-> r[1], max_energy |-> r[2], num_random |-> n,
       algorithm |-> [optimal_size |-> o]] :
        r \in EnergyRanges, n \in 1 .. MaxRandom, o \in BOOLEAN }

\* the energy grid and the broadening of a query
Grids == { [energy |-> <<0>>, broadening |-> 1], [energy |-> <<1, 0>>, broadening |-> 2] }

\* column lists of greens_vector: non-empty (assert, line 74)
ColumnLists == { <<c>> : c \in Sites } \cup { <<c, d>> : c \in Sites, d \in Sites }

\* where a query may abort (an exception leaving the member function): in
\* optimize_for, in the moment computation, or after toc (kernel damping and
\* reconstruction, which touch no member)
FailPoints == { "none", "optimize", "compute", "reconstruct" }

\* ------------------------------------------------------- values of no object

NoHamiltonian == [id |-> 0, field |-> "none"]
NoConfig == [min_energy |-> 0, max_energy |-> 0, num_random |-> 0,
             algorithm |-> [optimal_size |-> FALSE]]
NoScale == [a |-> 0, b |-> 0]
NoIndices == [row |-> -1, cols |-> <<>>]
NoBounds == [auto |-> FALSE, ham |-> NoHamiltonian, min |-> 0, max |-> 0]
NoView == [ham |-> NoHamiltonian, idx |-> NoIndices, scale |-> NoScale, timer |-> 0]

VARIABLES
    status,        \* "none": not constructed, "ok": constructed, "failed": ctor threw
    field,         \* scalar_t of the StrategyTemplate instantiation
    hamiltonian,   \* StrategyTemplate::hamiltonian
    config,        \* StrategyTemplate::config
    bounds,        \* StrategyTemplate::bounds
    optimized_hamiltonian, \* StrategyTemplate::optimized_hamiltonian
    stats,         \* StrategyTemplate::stats
    last,          \* the last call: its arguments, what it read and what it returned
    simd,          \* a split_loop call: its arguments, the split_loop_t, for_each's calls
    system         \* a System: positions, compressed_sublattices and the last lookup

strategy_vars ==
    <<status, field, hamiltonian, config, bounds, optimized_hamiltonian, stats, last>>

vars == <<strategy_vars, simd, system>>

\* ------------------------------------------------------------- collaborators

\* Bounds: spectral extrema of an operator as the Lanczos estimator finds them
SpectralRange(h) == [min |-> -(2 * h.id), max |-> h.id]

\* Bounds constructed from (hamiltonian, precision): computed from the operator
BoundsAuto(h) == [auto |-> TRUE, ham |-> h, min |-> 0, max |-> 0]

\* Bounds constructed from (min_energy, max_energy)
BoundsFixed(lo, hi) == [auto |-> FALSE, ham |-> NoHamiltonian, min |-> lo, max |-> hi]

\* Bounds::scaling_factors.  a and b are kept doubled (a = max - min,
\* b = max + min) so that they stay integers.
scaling_factors(b) ==
    LET lo == IF b.auto THEN SpectralRange(b.ham).min ELSE b.min
        hi == IF b.auto THEN SpectralRange(b.ham).max ELSE b.max
    IN  [a |-> hi - lo, b |-> hi + lo]

\* Kernel::required_num_moments(broadening / scale.a): grows with a / broadening
required_num_moments(broadening, scale) == (scale.a \div broadening) + 1

\* Indices{row, cols}
Indices(row, cols) == [row |-> row, cols |-> cols]

\* Indices::is_diagonal
is_diagonal(idx) == Len(idx.cols) = 1 /\ idx.cols[1] = idx.row

\* OptimizedHamiltonian(hamiltonian.get(), matrix_format, reorder): a view
\* over the given operator, not yet optimized for any index
OptimizedHamiltonian(h) == [ham |-> h, idx |-> NoIndices, scale |-> NoScale, timer |-> 0]

\* OptimizedHamiltonian::optimize_for(idx, scale): a no-op when the view is
\* already optimized for these arguments, otherwise the view is rebuilt from
\* the operator it was constructed over
optimize_for(oh, idx, scale) ==
    IF oh.idx = idx /\ oh.scale = scale
    THEN [oh EXCEPT !.timer = 0]
    ELSE [oh EXCEPT !.idx = idx, !.scale = scale, !.timer = 1]

\* Stats of a new Strategy
Stats0 == [multiplier |-> 0, moments_timer |-> [elapsed |-> 0, running |-> FALSE],
           optimization_time |-> 0]

\* OptimizedHamiltonian::populate_stats(stats, num_moments, algorithm): adds
\* the time of this query's optimization
populate_stats(oh, s, num_moments, algorithm) ==
    [s EXCEPT !.optimization_time = @ + oh.timer]

\* Chrono::tic
tic(s) == [s EXCEPT !.moments_timer.running = TRUE]

\* Chrono::toc: accumulates the time since tic
toc(s, dt) == [s EXCEPT !.moments_timer = [elapsed |-> @.elapsed + dt, running |-> FALSE]]

\* ---------------------------------------------------------------- reset_bounds

\* a slip: the configured range is ignored
reset_bounds_ignoring_config(h, cfg) == BoundsAuto(h)

reset_bounds(h, cfg) ==
    IF cfg.min_energy = cfg.max_energy
    THEN BoundsAuto(h)                                 \* will be automatically computed
    ELSE BoundsFixed(cfg.min_energy, cfg.max_energy)   \* user-defined bounds

\* ------------------------------------------------------------------- the log

NoCall == [op |-> "none", ok |-> FALSE, fail |-> "none", ham |-> NoHamiltonian,
           range |-> <<0, 0>>, idx |-> NoIndices, energy |-> <<>>, broadening |-> 0,
           view |-> NoView, drawn |-> <<>>, result |-> <<>>]

\* ------------------------------------------------------- support/simd.hpp

\* basic_traits: all vectors are 128-bit
align_bytes == 16
size_bytes == 16

\* sizeof(scalar_t): float, double and std::complex<float>, std::complex<double>
ScalarSizes == {4, 8, 16}

\* traits<T>::size, the default step of split_loop
traits_size(sizeof_T) == size_bytes \div sizeof_T

\* the pointers: byte addresses of every alignment (also those no scalar_t
\* object can have), above HeapBase so that p + start is an address
HeapBase == align_bytes * size_bytes * MaxIndex
Pointers == { HeapBase + o : o \in 0..(align_bytes - 1) }

\* p + n for a scalar_t const* p
pointer_add(p, n, sizeof_T) == p + n * sizeof_T

\* the % of C++ on int: truncated towards zero
int_rem(a, b) == IF a >= 0 THEN a % b ELSE -((-a) % b)

is_aligned(bytes, p) == p % bytes = 0

\* the peel loop of split_loop, from peel_end on
RECURSIVE split_loop_peel(_, _, _, _)
split_loop_peel(p, sizeof_T, peel_end, end) ==
    IF ~is_aligned(align_bytes, pointer_add(p, peel_end, sizeof_T)) /\ peel_end < end
    THEN split_loop_peel(p, sizeof_T, peel_end + 1, end)
    ELSE peel_end

\* a slip: the remainder loop rounds vec_end itself, not the section's length
RECURSIVE split_loop_vec_rounding_end(_, _, _)
split_loop_vec_rounding_end(vec_end, peel_end, step) ==
    IF int_rem(vec_end, step) # 0
    THEN split_loop_vec_rounding_end(vec_end - 1, peel_end, step)
    ELSE vec_end

\* the remainder loop of split_loop, from vec_end on
RECURSIVE split_loop_vec(_, _, _)
split_loop_vec(vec_end, peel_end, step) ==
    IF int_rem(vec_end - peel_end, step) # 0
    THEN split_loop_vec(vec_end - 1, peel_end, step)
    ELSE vec_end

split_loop(p, sizeof_T, step, start, end) ==
    LET peel_end == split_loop_peel(p, sizeof_T, start, end)
        vec_end == split_loop_vec(end, peel_end, step)
    IN  [start |-> start, peel_end |-> peel_end, vec_end |-> vec_end, end |-> end]

\* for (auto i = from; i < to; ++i) fn_scalar(i)
RECURSIVE for_each_scalar(_, _)
for_each_scalar(i, to) ==
    IF i < to THEN <<[fn |-> "scalar", i |-> i]>> \o for_each_scalar(i + 1, to) ELSE <<>>

\* for (auto i = peel_end; i < vec_end; i += step) fn_vector(i)
RECURSIVE for_each_vector(_, _, _)
for_each_vector(i, vec_end, step) ==
    IF i < vec_end
    THEN <<[fn |-> "vector", i |-> i]>> \o for_each_vector(i + step, vec_end, step)
    ELSE <<>>

\* split_loop_t<step>::for_each: the calls it makes, in order
for_each(loop, step) ==
    for_each_scalar(loop.start, loop.peel_end)
        \o for_each_vector(loop.peel_end, loop.vec_end, step)
        \o for_each_scalar(loop.vec_end, loop.end)

NoLoop == [start |-> 0, peel_end |-> 0, vec_end |-> 0, end |-> 0]
NoSplit == [pc |-> "none", p |-> 0, sizeof_T |-> 0, step |-> 0, start |-> 0, end |-> 0,
            loop |-> NoLoop, calls |-> <<>>]

\* --------------------------------------------------------- system/System.cpp

\* the sublattices of the lattice and the orbitals of each (Site::get_norb)
AliasIds == 0..2
get_norb(alias_id) == IF alias_id = 0 THEN 1 ELSE 2

\* the valid sites of a foundation in iteration order, each by its alias_id
Foundations == UNION { [1..n -> AliasIds] : n \in 0..MaxSites }

\* CompressedSublattices::add: one more site of the sublattice alias_id
compressed_sublattices_add(data, alias_id, norb) ==
    IF data = <<>> \/ data[Len(data)].alias_id # alias_id
    THEN Append(data, [alias_id |-> alias_id, num_sites |-> 1, num_orbitals |-> norb])
    ELSE [data EXCEPT ![Len(data)].num_sites = @ + 1]

\* the iterator over CompressedSublattices: element k with its running offsets
RECURSIVE sys_start(_, _)
sys_start(data, k) == IF k = 1 THEN 0 ELSE sys_start(data, k - 1) + data[k - 1].num_sites
sys_end(data, k) == sys_start(data, k) + data[k].num_sites
ham_size(data, k) == data[k].num_sites * data[k].num_orbitals
RECURSIVE ham_start(_, _)
ham_start(data, k) == IF k = 1 THEN 0 ELSE ham_start(data, k - 1) + ham_size(data, k - 1)

\* CompressedSublattices::verify: unique alias_ids, ascending num_orbitals,
\* as many sites as the system has
compressed_sublattices_verify(data, num_sites) ==
    /\ \A j, k \in 1..Len(data) : j # k => data[j].alias_id # data[k].alias_id
    /\ \A k \in 1..(Len(data) - 1) : data[k].num_orbitals <= data[k + 1].num_orbitals
    /\ (IF data = <<>> THEN 0 ELSE sys_end(data, Len(data))) = num_sites

\* detail::populate_system: the loop over the sites of the foundation
RECURSIVE populate_system(_, _)
populate_system(data, foundation) ==
    IF foundation = <<>> THEN data
    ELSE populate_system(
             compressed_sublattices_add(data, Head(foundation), get_norb(Head(foundation))),
             Tail(foundation))

num_sites(sys) == sys.positions

RECURSIVE hamiltonian_size_from(_, _)
hamiltonian_size_from(data, k) ==
    IF k > Len(data) THEN 0 ELSE ham_size(data, k) + hamiltonian_size_from(data, k + 1)

hamiltonian_size(sys) == hamiltonian_size_from(sys.compressed_sublattices, 1)

Returns(value) == [threw |-> FALSE, value |-> value]
Throws == [threw |-> TRUE, value |-> 0]

\* a slip: the offset inside the sublattice is not scaled by its orbitals
RECURSIVE to_hamiltonian_index_unscaled(_, _, _)
to_hamiltonian_index_unscaled(data, k, system_index) ==
    IF k > Len(data) THEN Throws
    ELSE IF sys_start(data, k) <= system_index /\ system_index < sys_end(data, k)
         THEN Returns(ham_start(data, k) + (system_index - sys_start(data, k)))
         ELSE to_hamiltonian_index_unscaled(data, k + 1, system_index)

\* System::to_hamiltonian_index, from sublattice k on
RECURSIVE to_hamiltonian_index_from(_, _, _)
to_hamiltonian_index_from(data, k, system_index) ==
    IF k > Len(data) THEN Throws
    ELSE IF sys_start(data, k) <= system_index /\ system_index < sys_end(data, k)
         THEN Returns(ham_start(data, k)
                      + (system_index - sys_start(data, k)) * data[k].num_orbitals)
         ELSE to_hamiltonian_index_from(data, k + 1, system_index)

to_hamiltonian_index(sys, system_index) ==
    to_hamiltonian_index_from(sys.compressed_sublattices, 1, system_index)

NoSystem == [pc |-> "none", positions |-> 0, compressed_sublattices |-> <<>>,
             called |-> FALSE, index |-> 0, result |-> Throws]

\* ------------------------------------------------------------------- actions

NotConstructed ==
    /\ status = "none"
    /\ field = "none"
    /\ hamiltonian = NoHamiltonian
    /\ config = NoConfig
    /\ bounds = NoBounds
    /\ optimized_hamiltonian = NoView
    /\ stats = Stats0
    /\ last = NoCall

Init ==
    /\ NotConstructed
    /\ simd = NoSplit
    /\ system = NoSystem

\* a slip: an inverted range is swapped instead of rejected
StrategyTemplate_swapping(h, cfg) ==
    /\ status = "none"
    /\ last' = [NoCall EXCEPT !.op = "construct", !.ham = h,
                              !.range = <<cfg.min_energy, cfg.max_energy>>, !.ok = TRUE]
    /\ stats' = Stats0
    /\ status' = "ok"
    /\ field' = h.field
    /\ hamiltonian' = h
    /\ config' = cfg
    /\ bounds' = IF cfg.min_energy > cfg.max_energy
                 THEN BoundsFixed(cfg.max_energy, cfg.min_energy)
                 ELSE reset_bounds(h, cfg)
    /\ optimized_hamiltonian' = OptimizedHamiltonian(h)

\* StrategyTemplate<scalar_t>::StrategyTemplate(h, config); scalar_t is the
\* scalar field of h.  The members are initialized first, then the range is
\* checked; a throw destroys the members and no object exists.
StrategyTemplate(h, cfg) ==
    /\ status = "none"
    /\ last' = [NoCall EXCEPT !.op = "construct", !.ham = h,
                              !.range = <<cfg.min_energy, cfg.max_energy>>,
                              !.ok = ~(cfg.min_energy > cfg.max_energy)]
    /\ stats' = Stats0
    /\ IF cfg.min_energy > cfg.max_energy
       THEN /\ status' = "failed"
            /\ field' = "none"
            /\ hamiltonian' = NoHamiltonian
            /\ config' = NoConfig
            /\ bounds' = NoBounds
            /\ optimized_hamiltonian' = NoView
       ELSE /\ status' = "ok"
            /\ field' = h.field
            /\ hamiltonian' = h
            /\ config' = cfg
            /\ bounds' = reset_bounds(h, cfg)
            /\ optimized_hamiltonian' = OptimizedHamiltonian(h)

\* a slip: the scalar field of the new operator is not checked
change_hamiltonian_unchecked(h) ==
    /\ status = "ok"
    /\ last' = [NoCall EXCEPT !.op = "change_hamiltonian", !.ham = h, !.ok = TRUE]
    /\ hamiltonian' = h
    /\ optimized_hamiltonian' = OptimizedHamiltonian(h)
    /\ bounds' = reset_bounds(h, config)
    /\ UNCHANGED <<status, field, config, stats>>

\* a slip: the optimized view keeps pointing at the replaced operator
change_hamiltonian_keeping_view(h) ==
    /\ status = "ok"
    /\ IF h.field # field
       THEN /\ last' = [NoCall EXCEPT !.op = "change_hamiltonian", !.ham = h, !.ok = FALSE]
            /\ UNCHANGED <<hamiltonian, optimized_hamiltonian, bounds>>
       ELSE /\ last' = [NoCall EXCEPT !.op = "change_hamiltonian", !.ham = h, !.ok = TRUE]
            /\ hamiltonian' = h
            /\ bounds' = reset_bounds(h, config)
            /\ UNCHANGED optimized_hamiltonian
    /\ UNCHANGED <<status, field, config, stats>>

\* StrategyTemplate::change_hamiltonian(h)
change_hamiltonian(h) ==
    /\ status = "ok"
    /\ IF h.field # field                   \* !ham::is<scalar_t>(h)
       THEN /\ last' = [NoCall EXCEPT !.op = "change_hamiltonian", !.ham = h, !.ok = FALSE]
            /\ UNCHANGED <<hamiltonian, optimized_hamiltonian, bounds>>
       ELSE /\ last' = [NoCall EXCEPT !.op = "change_hamiltonian", !.ham = h, !.ok = TRUE]
            /\ hamiltonian' = h
            /\ optimized_hamiltonian' = OptimizedHamiltonian(h)
            /\ bounds' = reset_bounds(h, config)
    /\ UNCHANGED <<status, field, config, stats>>

\* ---------------------------------------------------- the numeric pipeline

\* exval_starter(oh): the unit vector of the view's row
exval_starter(oh) == [kind |-> "exval", row |-> oh.idx.row, state |-> 0]

\* random_starter(oh, generator): a random-phase vector drawn from the
\* generator's current state
random_starter(oh, generator) == [kind |-> "random", row |-> -1, state |-> generator]

\* compute(DiagonalMoments(num_moments), starter, oh, algorithm): one scalar
\* moment sequence
compute_diagonal(num_moments, starter, oh, algorithm) ==
    [kind |-> "diagonal", n |-> num_moments, starter |-> starter, col |-> oh.idx.row,
     ham |-> oh.ham, idx |-> oh.idx, scale |-> oh.scale, algorithm |-> algorithm,
     damped |-> FALSE]

\* compute(OffDiagonalMoments(num_moments, idx), starter, oh, algorithm): one
\* recursion, one moment sequence per column of idx, in the order of idx.cols
compute_offdiagonal(num_moments, idx, starter, oh, algorithm) ==
    [i \in 1 .. Len(idx.cols) |->
        [kind |-> "offdiagonal", n |-> num_moments, starter |-> starter,
         col |-> idx.cols[i], ham |-> oh.ham, idx |-> oh.idx, scale |-> oh.scale,
         algorithm |-> algorithm, damped |-> FALSE]]

\* Kernel::apply(moments)
kernel_apply(moments) == [moments EXCEPT !.damped = TRUE]

\* reconstruct<real_t>(moments.real(), energy, scale)
reconstruct(moments, energy, scale) ==
    [quantity |-> "density", moments |-> <<moments>>, energy |-> energy, scale |-> scale]

\* reconstruct_greens(moments, energy, scale)
reconstruct_greens(moments, energy, scale) ==
    [quantity |-> "greens", moments |-> <<moments>>, energy |-> energy, scale |-> scale]

\* reconstruct of the average of the realizations' moments
reconstruct_total(total, energy, scale) ==
    [quantity |-> "density", moments |-> total, energy |-> energy, scale |-> scale]

\* ------------------------------------------------------------- the queries

\* what a query leaves behind: the view, the stats and the call's log entry
Outcome(oh, s, call) == [oh |-> oh, stats |-> s, call |-> call, config |-> config]

\* the log entry of a query; an aborted call returns nothing, and the log
\* keeps only where it aborted
Call(op, idx, energy, broadening, fail) ==
    IF fail = "none"
    THEN [NoCall EXCEPT !.op = op, !.idx = idx, !.energy = energy,
                        !.broadening = broadening, !.ok = TRUE]
    ELSE [NoCall EXCEPT !.op = "query", !.fail = fail]

\* a slip: ldos computes on the view as the previous query left it
ldos_optimize_skipped(index, scale) == optimized_hamiltonian

\* ldos: oh.optimize_for({index, index}, scale)
ldos_optimize(index, scale) ==
    optimize_for(optimized_hamiltonian, Indices(index, <<index>>), scale)

\* StrategyTemplate::ldos(index, energy, broadening)
ldos(index, energy, broadening, fail) ==
    LET scale == scaling_factors(bounds)
        num_moments == required_num_moments(broadening, scale)
        call == Call("ldos", Indices(index, <<index>>), energy, broadening, fail)
        oh == ldos_optimize(index, scale)
        s1 == populate_stats(oh, stats, num_moments, config.algorithm)
        s2 == tic(s1)
        moments == compute_diagonal(num_moments, exval_starter(oh), oh, config.algorithm)
        s3 == toc(s2, 1)
        result == reconstruct(kernel_apply(moments), energy, scale)
    IN  CASE fail = "optimize" -> Outcome(optimized_hamiltonian, stats, call)
          [] fail = "compute" -> Outcome(oh, s2, call)
          [] fail = "reconstruct" -> Outcome(oh, s3, call)
          [] OTHER -> Outcome(oh, s3, [call EXCEPT !.view = oh, !.result = <<result>>])

\* a slip: the branch looks at the first column only
greens_vector_diagonal_branch_first_column(oh) == oh.idx.cols[1] = oh.idx.row

\* greens_vector: if (oh.idx().is_diagonal())
greens_vector_diagonal_branch(oh) == is_diagonal(oh.idx)

\* StrategyTemplate::greens_vector(row, cols, energy, broadening)
greens_vector(row, cols, energy, broadening, fail) ==
    LET scale == scaling_factors(bounds)
        num_moments == required_num_moments(broadening, scale)
        call == Call("greens_vector", Indices(row, cols), energy, broadening, fail)
        oh == optimize_for(optimized_hamiltonian, Indices(row, cols), scale)
        s1 == populate_stats(oh, stats, num_moments, config.algorithm)
        s2 == tic(s1)
        s3 == toc(s2, 1)
        result ==
            IF greens_vector_diagonal_branch(oh)
            THEN LET moments == compute_diagonal(num_moments, exval_starter(oh), oh,
                                                 config.algorithm)
                 IN  <<reconstruct_greens(kernel_apply(moments), energy, scale)>>
            ELSE LET moments_vector == compute_offdiagonal(num_moments, oh.idx,
                                           exval_starter(oh), oh, config.algorithm)
                 IN  [i \in 1 .. Len(moments_vector) |->
                        reconstruct_greens(kernel_apply(moments_vector[i]), energy, scale)]
    IN  CASE fail = "optimize" -> Outcome(optimized_hamiltonian, stats, call)
          [] fail = "compute" -> Outcome(oh, s2, call)
          [] fail = "reconstruct" -> Outcome(oh, s3, call)
          [] OTHER -> Outcome(oh, s3, [call EXCEPT !.view = oh, !.result = result])

\* a slip: row and column are passed the wrong way round
greens_transposed(row, col, energy, broadening, fail) ==
    LET r == greens_vector(col, <<row>>, energy, broadening, fail)
    IN  IF r.call.ok
        THEN [r EXCEPT !.call.op = "greens", !.call.idx = Indices(row, <<col>>),
                       !.call.result = <<Head(@)>>]
        ELSE r

\* StrategyTemplate::greens(row, col, energy, broadening)
greens(row, col, energy, broadening, fail) ==
    LET r == greens_vector(row, <<col>>, energy, broadening, fail)
    IN  IF r.call.ok
        THEN [r EXCEPT !.call.op = "greens", !.call.idx = Indices(row, <<col>>),
                       !.call.result = <<Head(@)>>]
        ELSE r

\* std::mt19937 generator: the state a default-constructed generator starts in
default_seed == 5489

\* the loop of dos: num_random realizations, each with a starter drawn from
\* the one generator declared before the loop
RECURSIVE dos_loop(_, _, _, _, _, _)
dos_loop(j, generator, total, oh, num_moments, algorithm) ==
    IF j < config.num_random
    THEN LET starter == random_starter(oh, generator)
             moments == compute_diagonal(num_moments, starter, oh, algorithm)
         IN  dos_loop(j + 1, generator + 1, Append(total, moments), oh, num_moments,
                      algorithm)
    ELSE total

\* a slip: the generator is declared inside the loop, so every realization
\* starts from a newly constructed generator
dos_realizations_reseeded(oh, num_moments, algorithm) ==
    [j \in 1 .. config.num_random |->
        compute_diagonal(num_moments, random_starter(oh, default_seed), oh, algorithm)]

\* dos: std::mt19937 generator; for (j = 0; j < config.num_random; ++j) ...
dos_realizations(oh, num_moments, algorithm) ==
    dos_loop(0, default_seed, <<>>, oh, num_moments, algorithm)

\* a slip: the multiplier is added to what the earlier queries left
dos_multiplier_accumulated(s) == [s EXCEPT !.multiplier = @ + config.num_random]

\* dos: stats.multiplier = config.num_random
dos_multiplier(s) == [s EXCEPT !.multiplier = config.num_random]

\* a slip: optimal_size is disabled in the member config, not in a copy
dos_specialized_algorithm_in_place(cfg) ==
    [config |-> [cfg EXCEPT !.algorithm.optimal_size = FALSE],
     algorithm |-> [cfg.algorithm EXCEPT !.optimal_size = FALSE]]

\* dos: auto specialized_algorithm = config.algorithm;
\*      specialized_algorithm.optimal_size = false;
\* the member config after the two statements, and the local copy
dos_specialized_algorithm(cfg) ==
    [config |-> cfg, algorithm |-> [cfg.algorithm EXCEPT !.optimal_size = FALSE]]

\* StrategyTemplate::dos(energy, broadening)
dos(energy, broadening, fail) ==
    LET scale == scaling_factors(bounds)
        num_moments == required_num_moments(broadening, scale)
        specialized == dos_specialized_algorithm(config)
        specialized_algorithm == specialized.algorithm
        call == Call("dos", Indices(0, <<0>>), energy, broadening, fail)
        oh == optimize_for(optimized_hamiltonian, Indices(0, <<0>>), scale)
        s1 == populate_stats(oh, stats, num_moments, specialized_algorithm)
        s2 == tic(dos_multiplier(s1))
        total == dos_realizations(oh, num_moments, specialized_algorithm)
        s3 == toc(s2, 1)
        damped == [j \in 1 .. Len(total) |-> kernel_apply(total[j])]
        drawn == [j \in 1 .. Len(total) |-> total[j].starter.state]
        result == reconstruct_total(damped, energy, scale)
        outcome ==
            CASE fail = "optimize" -> Outcome(optimized_hamiltonian, stats, call)
              [] fail = "compute" -> Outcome(oh, s2, call)
              [] fail = "reconstruct" -> Outcome(oh, s3, call)
              [] OTHER -> Outcome(oh, s3, [call EXCEPT !.view = oh, !.drawn = drawn,
                                                       !.result = <<result>>])
    IN  [outcome EXCEPT !.config = specialized.config]

\* a query runs on a constructed Strategy; the accumulated timers are capped
CanQuery ==
    /\ status = "ok"
    /\ stats.moments_timer.elapsed < MaxTime
    /\ stats.optimization_time < MaxTime

Commit(r) ==
    /\ CanQuery
    /\ optimized_hamiltonian' = r.oh
    /\ stats' = r.stats
    /\ last' = r.call
    /\ config' = r.config
    /\ UNCHANGED <<status, field, hamiltonian, bounds>>

Construct ==
    /\ \E h \in Hamiltonians, cfg \in Configs : StrategyTemplate(h, cfg)
    /\ UNCHANGED <<simd, system>>

ChangeHamiltonian ==
    /\ \E h \in Hamiltonians : change_hamiltonian(h)
    /\ UNCHANGED <<simd, system>>

\* the inputs of a query: a grid and where it aborts, if it does (an aborted
\* call returns nothing, so one grid stands for all)
QueryInputs ==
    { <<g, "none">> : g \in Grids } \cup
    { <<CHOOSE g \in Grids : g.broadening = 1, f>> : f \in FailPoints \ {"none"} }

Ldos ==
    /\ \E index \in Sites, q \in QueryInputs :
        Commit(ldos(index, q[1].energy, q[1].broadening, q[2]))
    /\ UNCHANGED <<simd, system>>

GreensVector ==
    /\ \E row \in Sites, cols \in ColumnLists, q \in QueryInputs :
        Commit(greens_vector(row, cols, q[1].energy, q[1].broadening, q[2]))
    /\ UNCHANGED <<simd, system>>

Greens ==
    /\ \E row \in Sites, col \in Sites, q \in QueryInputs :
        Commit(greens(row, col, q[1].energy, q[1].broadening, q[2]))
    /\ UNCHANGED <<simd, system>>

Dos ==
    /\ \E q \in QueryInputs :
        Commit(dos(q[1].energy, q[1].broadening, q[2]))
    /\ UNCHANGED <<simd, system>>

Next ==
    \/ Construct
    \/ ChangeHamiltonian
    \/ Ldos
    \/ GreensVector
    \/ Greens
    \/ Dos

Spec == Init /\ [][Next]_vars

\* ----------------------------------------------- split_loop on its own inputs

\* every scalar type with its default step and with every explicit step
SplitArguments ==
    { [pc |-> "called", p |-> p, sizeof_T |-> z, step |-> n, start |-> a, end |-> b,
       loop |-> NoLoop, calls |-> <<>>] :
        p \in Pointers, z \in ScalarSizes, n \in 1..MaxStep,
        a \in (-MaxIndex)..MaxIndex, b \in (-MaxIndex)..MaxIndex }

SplitLoopInit ==
    /\ NotConstructed
    /\ simd \in { c \in SplitArguments : c.start <= c.end }
    /\ system = NoSystem

SplitLoop ==
    /\ simd.pc = "called"
    /\ simd' = [simd EXCEPT !.pc = "split",
                            !.loop = split_loop(simd.p, simd.sizeof_T, simd.step,
                                                simd.start, simd.end)]
    /\ UNCHANGED <<strategy_vars, system>>

ForEach ==
    /\ simd.pc = "split"
    /\ simd' = [simd EXCEPT !.pc = "done", !.calls = for_each(simd.loop, simd.step)]
    /\ UNCHANGED <<strategy_vars, system>>

SplitLoopNext ==
    \/ SplitLoop
    \/ ForEach

SplitLoopSpec == SplitLoopInit /\ [][SplitLoopNext]_vars

\* ---------------------------------------------------- System and its lookups

SystemInit ==
    /\ NotConstructed
    /\ simd = NoSplit
    /\ system = NoSystem

\* System::System(foundation, symmetry, hopping_generators)
System(foundation) ==
    LET size == Len(foundation)
        data == populate_system(<<>>, foundation)
    IN  /\ system.pc = "none"
        /\ IF compressed_sublattices_verify(data, size) /\ size # 0
           THEN system' = [NoSystem EXCEPT !.pc = "ok", !.positions = size,
                                           !.compressed_sublattices = data]
           ELSE system' = [NoSystem EXCEPT !.pc = "failed"]
        /\ UNCHANGED <<strategy_vars, simd>>

ToHamiltonianIndex(system_index) ==
    /\ system.pc = "ok"
    /\ system' = [system EXCEPT !.called = TRUE, !.index = system_index,
                                !.result = to_hamiltonian_index(system, system_index)]
    /\ UNCHANGED <<strategy_vars, simd>>

SystemConstruct == \E foundation \in Foundations : System(foundation)

SystemLookup == \E system_index \in (-1)..(MaxSites + 1) : ToHamiltonianIndex(system_index)

SystemNext ==
    \/ SystemConstruct
    \/ SystemLookup

SystemSpec == SystemInit /\ [][SystemNext]_vars

\* ================================================================== claims

QueryOps == { "ldos", "greens", "greens_vector", "dos" }

\* the scale factors that follow from the held operator and the configuration
ConfiguredScale == scaling_factors(reset_bounds(hamiltonian, config))

\* the view a query with index idx must compute on
ExpectedView(idx) == [ham |-> hamiltonian, idx |-> idx, scale |-> ConfiguredScale]

ViewOf(oh) == [ham |-> oh.ham, idx |-> oh.idx, scale |-> oh.scale]

\* C1: change_hamiltonian with an operator of another scalar field returns
\* false and leaves the held operator, the bounds, the optimized view and the
\* stats as they were.
C1_MismatchLeavesStateUnchanged ==
    [][\A h \in Hamiltonians :
        (h.field # field /\ change_hamiltonian(h)) =>
            /\ last'.ok = FALSE
            /\ UNCHANGED <<hamiltonian, bounds, optimized_hamiltonian, stats>>]_vars

\* a rejected operator, offered after queries have left a view and stats behind
C1_Witness ==
    /\ last.op = "change_hamiltonian"
    /\ ~last.ok
    /\ last.ham.field # field
    /\ optimized_hamiltonian.idx # NoIndices
    /\ stats.moments_timer.elapsed > 0

\* C2: change_hamiltonian with an operator of the Strategy's scalar field
\* returns true, holds the new operator, replaces the optimized view by a
\* view over the new operator that is optimized for no index yet, and leaves
\* the scale factors as they were when a range is configured, and otherwise
\* takes them from the new operator.
C2_MatchReplacesOperator ==
    [][\A h \in Hamiltonians :
        (h.field = field /\ change_hamiltonian(h)) =>
            /\ last'.ok = TRUE
            /\ hamiltonian' = h
            /\ optimized_hamiltonian'.ham = h
            /\ optimized_hamiltonian'.idx = NoIndices
            /\ IF config.min_energy < config.max_energy
               THEN scaling_factors(bounds') = scaling_factors(bounds)
               ELSE scaling_factors(bounds') = scaling_factors(BoundsAuto(h))]_vars

\* an accepted operator, after a query, once with computed bounds
C2_Witness ==
    /\ last.op = "change_hamiltonian"
    /\ last.ok
    /\ bounds.auto
    /\ hamiltonian = last.ham
    /\ stats.moments_timer.elapsed > 0

\* C3: a construction with min_energy > max_energy fails: no Strategy exists
\* afterwards (no operator, no bounds), and a Strategy that exists has a
\* configuration with min_energy <= max_energy and bounds in that order.
C3_InvertedRangeNeverConstructs ==
    /\ (last.op = "construct" /\ last.range[1] > last.range[2]) =>
            /\ status = "failed"
            /\ ~last.ok
            /\ hamiltonian = NoHamiltonian
            /\ bounds = NoBounds
    /\ status = "ok" =>
            /\ config.min_energy <= config.max_energy
            /\ scaling_factors(bounds).a > 0
    /\ status = "failed" => last.op = "construct"

\* a construction that was given an inverted range
C3_Witness ==
    /\ last.op = "construct"
    /\ last.range[1] > last.range[2]
    /\ status = "failed"

\* C4: the result of ldos is a function of the held operator, the
\* configuration and the arguments alone: whatever queries ran before, it is
\* the density reconstructed from the diagonal moments of the held operator
\* at {index, index}, so two calls with the same arguments agree.
C4_LdosDependsOnArgumentsOnly ==
    last.op = "ldos" =>
        LET view == ExpectedView(last.idx)
            n == required_num_moments(last.broadening, ConfiguredScale)
            moments == compute_diagonal(n, exval_starter(view), view, config.algorithm)
        IN  /\ is_diagonal(last.idx)
            /\ last.result = <<reconstruct(kernel_apply(moments), last.energy,
                                           ConfiguredScale)>>

\* an ldos call that returned after a dos call had set the multiplier
C4_Witness ==
    /\ last.op = "ldos"
    /\ last.ok
    /\ stats.multiplier > 0
    /\ stats.moments_timer.elapsed >= 2

\* a step of a query that returned, and a step of a query that aborted
Returned == last'.op \in QueryOps /\ last'.ok
Aborted == last'.op = "query"

\* what the timers gain in a step: a rebuilt view's optimization time, and
\* the time of a moment computation that reached toc
OptimizationGain ==
    IF Aborted /\ last'.fail = "optimize" THEN 0 ELSE optimized_hamiltonian'.timer
MomentsGain ==
    IF Returned \/ (Aborted /\ last'.fail = "reconstruct") THEN 1 ELSE 0

\* C5 as stated: every query changes every Stats field additively; a dos call
\* adds its num_random to the multiplier the earlier queries left.
C5_AsStated ==
    [][(Returned \/ Aborted) =>
        /\ stats'.optimization_time = stats.optimization_time + OptimizationGain
        /\ stats'.moments_timer.elapsed = stats.moments_timer.elapsed + MomentsGain
        /\ (Returned /\ last'.op = "dos") =>
                stats'.multiplier = stats.multiplier + config.num_random
        /\ (Returned /\ last'.op # "dos") => stats'.multiplier = stats.multiplier]_vars

\* C5, amended: the timers are changed additively and never reset by a
\* query; the multiplier is assigned: dos overwrites it with num_random, the
\* other queries leave it as the last dos left it.
C5_TimersAdditiveMultiplierAssigned ==
    [][(Returned \/ Aborted) =>
        /\ stats'.optimization_time = stats.optimization_time + OptimizationGain
        /\ stats'.moments_timer.elapsed = stats.moments_timer.elapsed + MomentsGain
        /\ (Returned /\ last'.op = "dos") => stats'.multiplier = config.num_random
        /\ (Returned /\ last'.op # "dos") => stats'.multiplier = stats.multiplier
        /\ Aborted => stats'.multiplier \in {stats.multiplier, config.num_random}]_vars

\* a dos call that returned after an earlier query had optimized the view
\* for {0, 0}: the timers hold both computations and one optimization
C5_Witness ==
    /\ last.op = "dos"
    /\ last.ok
    /\ stats.multiplier = config.num_random
    /\ stats.moments_timer.elapsed = 2
    /\ stats.optimization_time = 1

\* C6 as stated: a query that aborts leaves the stats, the moment timer
\* included, as they were before the query.
C6_AsStated ==
    [][Aborted => stats' = stats]_vars

\* the sequence the generator of a dos call yields: num_random successive
\* states, the first one the default-constructed state
SuccessiveDraws == [j \in 1 .. config.num_random |-> default_seed + (j - 1)]

C8_GreensIsSingleColumnGreensVector ==
    [][/\ (last'.op = "greens" /\ last'.ok) =>
            LET r == greens_vector(last'.idx.row, <<last'.idx.cols[1]>>, last'.energy,
                                   last'.broadening, "none")
            IN  /\ Len(last'.idx.cols) = 1
                /\ Len(r.call.result) = 1
                /\ last'.result = <<r.call.result[1]>>
                /\ optimized_hamiltonian' = r.oh
                /\ stats' = r.stats
       /\ (Aborted /\ last'.fail # "optimize"
              /\ Len(optimized_hamiltonian'.idx.cols) = 1) =>
            LET idx == optimized_hamiltonian'.idx
                g == CHOOSE g \in Grids : g.broadening = 1
            IN  greens(idx.row, idx.cols[1], g.energy, g.broadening, last'.fail)
                    = greens_vector(idx.row, <<idx.cols[1]>>, g.energy, g.broadening,
                                    last'.fail)]_vars

\* an off-diagonal greens call that returned
C8_Witness ==
    /\ last.op = "greens"
    /\ last.ok
    /\ last.idx.row # last.idx.cols[1]
    /\ Len(last.result) = 1

\* the moment sequence a returned array was reconstructed from
MomentsOf(array) == array.moments[1]

\* C9: greens_vector returns one array per requested column, the i-th from
\* the moments of cols[i]; the arrays come from the diagonal computation
\* exactly when cols is the single column row, and otherwise all from one
\* off-diagonal computation started at row.
C9_OneArrayPerColumn ==
    last.op = "greens_vector" =>
        /\ Len(last.result) = Len(last.idx.cols)
        /\ \A i \in 1 .. Len(last.idx.cols) :
            /\ last.result[i].quantity = "greens"
            /\ last.result[i].energy = last.energy
            /\ MomentsOf(last.result[i]).col = last.idx.cols[i]
            /\ MomentsOf(last.result[i]).starter = [kind |-> "exval", row |-> last.idx.row,
                                                    state |-> 0]
            /\ MomentsOf(last.result[i]).idx = last.idx
            /\ MomentsOf(last.result[i]).kind =
                    IF last.idx.cols = <<last.idx.row>> THEN "diagonal" ELSE "offdiagonal"

\* a greens_vector call with two columns, the first of them the row
C9_Witness ==
    /\ last.op = "greens_vector"
    /\ last.ok
    /\ Len(last.idx.cols) = 2
    /\ last.idx.cols[1] = last.idx.row
    /\ last.idx.cols[2] # last.idx.row

\* C10: the view a moment computation reads is optimized for the query's own
\* index, over the held operator, with the current scale factors.
C10_MomentsReadTheQuerysView ==
    /\ (last.op \in QueryOps /\ last.ok) =>
            /\ ViewOf(last.view) = ExpectedView(last.idx)
            /\ scaling_factors(bounds) = ConfiguredScale
            /\ last.op = "dos" => last.idx = Indices(0, <<0>>)
            /\ last.op = "ldos" => is_diagonal(last.idx)
            /\ last.view = optimized_hamiltonian
    /\ (last.op = "query" /\ last.fail \in {"compute", "reconstruct"}) =>
            /\ optimized_hamiltonian.ham = hamiltonian
            /\ optimized_hamiltonian.scale = ConfiguredScale
            /\ optimized_hamiltonian.idx # NoIndices

\* a moment computation on a view rebuilt in its own query, after an earlier
\* query had optimized the view for another index
C10_Witness ==
    /\ last.op = "ldos"
    /\ last.ok
    /\ last.view.timer = 1
    /\ stats.optimization_time = 2

\* ---- C11

\* the indices a call of for_each's functions works on
Covers(call, k, step) ==
    IF call.fn = "vector" THEN call.i <= k /\ k < call.i + step ELSE call.i = k

CallsCovering(k) ==
    { j \in 1..Len(simd.calls) : Covers(simd.calls[j], k, simd.step) }

\* C11: for every pointer p and every start <= end, split_loop returns
\* start <= peel_end <= vec_end <= end with vec_end - peel_end a multiple of
\* step, end - vec_end < step and p + peel_end aligned to align_bytes whenever
\* peel_end < end; for_each then visits every index of [start, end) exactly
\* once and no other index, those of [peel_end, vec_end) in whole vector
\* blocks of step and all others by the scalar function.
C11_SplitLoopPartitionsTheRange ==
    LET loop == simd.loop
    IN  /\ simd.pc \in {"split", "done"} =>
            /\ loop.start = simd.start /\ loop.end = simd.end
            /\ loop.start <= loop.peel_end
            /\ loop.peel_end <= loop.vec_end
            /\ loop.vec_end <= loop.end
            /\ (loop.vec_end - loop.peel_end) % simd.step = 0
            /\ loop.end - loop.vec_end < simd.step
            /\ loop.peel_end < loop.end =>
                    (simd.p + loop.peel_end * simd.sizeof_T) % align_bytes = 0
        /\ simd.pc = "done" =>
            /\ \A k \in loop.start..(loop.end - 1) :
                    /\ Cardinality(CallsCovering(k)) = 1
                    /\ \A j \in CallsCovering(k) :
                            simd.calls[j].fn = "vector"
                                <=> (loop.peel_end <= k /\ k < loop.vec_end)
            /\ \A j \in 1..Len(simd.calls) :
                    LET call == simd.calls[j]
                    IN  IF call.fn = "vector"
                        THEN loop.peel_end <= call.i /\ call.i + simd.step <= loop.vec_end
                        ELSE loop.start <= call.i /\ call.i < loop.end

\* a float array 12 bytes past an aligned address: one peeled index, one
\* vector block of four and a scalar tail
C11_Witness ==
    /\ simd.pc = "done"
    /\ simd.step > 1
    /\ simd.loop.start < simd.loop.peel_end
    /\ simd.loop.peel_end < simd.loop.vec_end
    /\ simd.loop.vec_end < simd.loop.end
    /\ \E j \in 1..Len(simd.calls) : simd.calls[j].fn = "vector"

\* ---- C12

\* the compressed sublattices whose range [sys_start, sys_end) contains i
SublatticesContaining(i) ==
    { k \in 1..Len(system.compressed_sublattices) :
        /\ sys_start(system.compressed_sublattices, k) <= i
        /\ i < sys_end(system.compressed_sublattices, k) }

\* C12: in a constructed System every index i of [0, num_sites()) lies in the
\* range of exactly one compressed sublattice and to_hamiltonian_index(i)
\* returns ham_start + (i - sys_start) * num_orbitals of that sublattice, a
\* value of [0, hamiltonian_size()) that is strictly increasing in i; an index
\* in no sublattice's range makes the call throw instead of returning.
C12_ToHamiltonianIndexIsTheOrbitalOffset ==
    LET data == system.compressed_sublattices
        i == system.index
        Sites_ == 0..(num_sites(system) - 1)
    IN  system.pc = "ok" =>
            /\ \A j \in Sites_ : Cardinality(SublatticesContaining(j)) = 1
            /\ \A k \in SublatticesContaining(i) :
                    /\ system.called
                    => /\ ~system.result.threw
                       /\ system.result.value =
                              ham_start(data, k)
                                  + (i - sys_start(data, k)) * data[k].num_orbitals
                       /\ 0 <= system.result.value
                       /\ system.result.value < hamiltonian_size(system)
            /\ system.called /\ SublatticesContaining(i) = {} => system.result.threw
            /\ \A j \in Sites_ :
                    /\ ~to_hamiltonian_index(system, j).threw
                    /\ j + 1 \in Sites_ =>
                           to_hamiltonian_index(system, j).value
                               < to_hamiltonian_index(system, j + 1).value

\* a lookup of a later site of a two-orbital sublattice that follows another
\* sublattice
C12_Witness ==
    /\ system.pc = "ok"
    /\ system.called
    /\ Len(system.compressed_sublattices) > 1
    /\ system.index \in 0..(num_sites(system) - 1)
    /\ \E k \in SublatticesContaining(system.index) :
           /\ k > 1
           /\ system.compressed_sublattices[k].num_orbitals > 1
           /\ system.index > sys_start(system.compressed_sublattices, k)
    /\ ~system.result.threw
    /\ system.result.value > system.index

\* a lookup one past the last site throws
C12_WitnessThrow ==
    /\ system.pc = "ok"
    /\ system.called
    /\ system.index = num_sites(system)
    /\ system.result.threw

\* ---- C13

\* the algorithm settings every moment computation of the returned result ran with
AlgorithmsOf(call) ==
    UNION { { call.result[i].moments[j].algorithm : j \in 1..Len(call.result[i].moments) } :
            i \in 1..Len(call.result) }

\* C13: no query changes the configuration; dos, returning or aborted, leaves
\* config.algorithm (optimal_size included) and config.num_random as they
\* were and computes with a copy whose optimal_size is off; ldos and
\* greens_vector, also after a dos, compute with config.algorithm as it was
\* configured.
C13_DosSpecializesACopy ==
    [][status = "ok" =>
          /\ Returned \/ Aborted =>
                 /\ config'.algorithm = config.algorithm
                 /\ config'.num_random = config.num_random
                 /\ config' = config
          /\ Returned /\ last'.op = "dos" =>
                 AlgorithmsOf(last') = {[config.algorithm EXCEPT !.optimal_size = FALSE]}
          /\ Returned /\ last'.op \in {"ldos", "greens_vector"} =>
                 AlgorithmsOf(last') = {config.algorithm}]_vars

\* an ldos that ran with optimal_size on after a dos (which set the
\* multiplier) on the same Strategy
C13_Witness ==
    /\ last.op = "ldos" /\ last.ok
    /\ stats.multiplier # 0
    /\ config.algorithm.optimal_size
    /\ \E a \in AlgorithmsOf(last) : a.optimal_size

====
